---------------------------- MODULE Spec2Model ----------------------------
(***************************************************************************)
(* Exam timetabling by graph colouring: the two scripts of                 *)
(* "versiones anteriores", Horario_cambiados.py and horario_examenes.py.   *)
(* Both read two JSON maps (student -> courses, professor -> courses),     *)
(* build the conflict graph, colour it greedily by descending degree,      *)
(* group the courses by slot and hand out room labels.  They differ only   *)
(* in how the professors' file is loaded.                                  *)
(*                                                                         *)
(* Course names are written without accents.                               *)
(***************************************************************************)
EXTENDS Naturals, Sequences, FiniteSets, TLC

(***************************************************************************)
(* Bounds of the model.                                                    *)
(***************************************************************************)
MaxStudents == 1
MaxProfessors == 1
\* total number of course entries over all lists of both files
MaxEntries == 4

(***************************************************************************)
(* The course names.                                                       *)
(***************************************************************************)
Truncated == "ntroduccion a ciencia de la computacion"
Canonical == "Introduccion a ciencia de la computacion"

\* The names an input file may hold, in Python's string order (an upper
\* case letter sorts before every lower case one).
LexOrder == <<"Calculo", "Fisica", Canonical, Truncated>>

Courses == {LexOrder[i] : i \in 1..Len(LexOrder)}

LexRank(c) == CHOOSE i \in 1..Len(LexOrder) : LexOrder[i] = c

Students == 1..MaxStudents
Professors == 1..MaxProfessors

\* The two scripts.
Versions == {"Horario_cambiados", "horario_examenes"}

\* a file that may not exist: asignaciones_profesores.json is absent, or
\* holds a map
NoFile == [exists |-> FALSE, data |-> <<>>]
File(data) == [exists |-> TRUE, data |-> data]
\* no earlier run was observed
NoRun == <<>>

(***************************************************************************)
(* Inputs: every map from the persons to lists of course names whose       *)
(* lists hold at most `budget` entries in all.                             *)
(***************************************************************************)
ListsUpTo(n) == UNION {[1..k -> Courses] : k \in 0..n}

RECURSIVE Maps(_, _)
Maps(P, budget) ==
    IF P = {} THEN {<<>>}
    ELSE LET p == CHOOSE q \in P : TRUE
         IN  UNION { { (p :> l) @@ m : m \in Maps(P \ {p}, budget - Len(l)) }
                     : l \in ListsUpTo(budget) }

Range(s) == {s[i] : i \in 1..Len(s)}

Perms(S) == {s \in [1..Cardinality(S) -> S] : Range(s) = S}

VARIABLES
    version,                        \* which script runs
    students_file,                  \* asignaciones_alumnos.json
    professors_file,                \* asignaciones_profesores.json or NoFile
    pc,                             \* position in the script
    error,                          \* the exception that ended the run
    advisory,                       \* the "Advertencia" line was printed
    student_assignments,
    professor_assignments,
    all_courses,
    student_conflict_graph_edges,
    professor_conflict_graph_edges,
    combined_conflict_graph_edges,
    G_nodes,                        \* G.nodes(), in insertion order
    G_edges,                        \* the edges of G
    sorted_nodes,
    idx,                            \* nodes of sorted_nodes the for loop took
    node,                           \* the for loop's variable
    used_neighbor_colors,
    color,
    coloring,                       \* dict: sequence of <<course, slot>>
    schedule,                       \* dict: sequence of <<slot, courses>>
    max_simultaneous_exams,
    room_assignments,               \* dict of dicts, as sequences of pairs
    prev                            \* what an earlier run on this input gave

vars == <<version, students_file, professors_file, pc, error, advisory,
          student_assignments, professor_assignments, all_courses,
          student_conflict_graph_edges, professor_conflict_graph_edges,
          combined_conflict_graph_edges, G_nodes, G_edges, sorted_nodes,
          idx, node, used_neighbor_colors, color, coloring, schedule,
          max_simultaneous_exams, room_assignments, prev>>

\* the variables of one run, before its first statement
Fresh ==
    /\ pc = "load"
    /\ error = "none"
    /\ advisory = FALSE
    /\ student_assignments = <<>>
    /\ professor_assignments = <<>>
    /\ all_courses = {}
    /\ student_conflict_graph_edges = {}
    /\ professor_conflict_graph_edges = {}
    /\ combined_conflict_graph_edges = {}
    /\ G_nodes = <<>>
    /\ G_edges = {}
    /\ sorted_nodes = <<>>
    /\ idx = 0
    /\ node = ""
    /\ used_neighbor_colors = {}
    /\ color = 0
    /\ coloring = <<>>
    /\ schedule = <<>>
    /\ max_simultaneous_exams = 0
    /\ room_assignments = <<>>

Init ==
    /\ version \in Versions
    /\ \E k \in 0..MaxEntries :
          /\ students_file \in Maps(Students, k)
          /\ professors_file \in
                {NoFile} \cup {File(m) : m \in Maps(Professors, MaxEntries - k)}
    /\ prev = NoRun
    /\ Fresh


(***************************************************************************)
(* Python dicts keep insertion order: a dict is a sequence of <<key,       *)
(* value>> pairs with distinct keys.                                       *)
(***************************************************************************)
DictKeys(d) == {d[i][1] : i \in 1..Len(d)}

DictGet(d, k) == d[CHOOSE i \in 1..Len(d) : d[i][1] = k][2]

\* d[k] = v
DictSet(d, k, v) ==
    IF k \in DictKeys(d)
    THEN [i \in 1..Len(d) |-> IF d[i][1] = k THEN <<k, v>> ELSE d[i]]
    ELSE Append(d, <<k, v>>)

\* a dict as a mapping, the way == compares two dicts
AsMap(d) == [k \in DictKeys(d) |-> DictGet(d, k)]

\* groups of variables, for UNCHANGED
inputVars == <<version, students_file, professors_file, prev>>
loadVars == <<advisory, student_assignments, professor_assignments>>
edgeVars == <<all_courses, student_conflict_graph_edges,
              professor_conflict_graph_edges, combined_conflict_graph_edges>>
graphVars == <<G_nodes, G_edges, sorted_nodes>>
loopVars == <<idx, node, used_neighbor_colors, color, coloring>>
outVars == <<schedule, max_simultaneous_exams, room_assignments>>

(***************************************************************************)
(* 1. Loading and preprocessing                                            *)
(***************************************************************************)
\* json.load of both files; only Horario_cambiados.py catches the missing
\* professors' file, prints the warning and goes on with an empty dict
Load ==
    /\ pc = "load"
    /\ student_assignments' = students_file
    /\ IF professors_file.exists
       THEN /\ professor_assignments' = professors_file.data
            /\ pc' = "normalize"
            /\ UNCHANGED <<advisory, error>>
       ELSE IF version = "Horario_cambiados"
       THEN /\ advisory' = TRUE
            /\ professor_assignments' = <<>>
            /\ pc' = "normalize"
            /\ UNCHANGED error
       ELSE /\ pc' = "aborted"
            /\ error' = "FileNotFoundError"
            /\ UNCHANGED <<advisory, professor_assignments>>
    /\ UNCHANGED <<inputVars, edgeVars, graphVars, loopVars, outVars>>

\* the conditional expression of the list comprehension
CorrectedCourse(course) ==
    IF course = Truncated THEN Canonical ELSE course

\* the list comprehension
CorrectedCourses(courses) ==
    [i \in 1..Len(courses) |-> CorrectedCourse(courses[i])]

\* the typo is corrected in the students' lists
Normalize ==
    /\ pc = "normalize"
    /\ student_assignments' =
           [s \in DOMAIN student_assignments |->
               CorrectedCourses(student_assignments[s])]
    /\ pc' = "collect"
    /\ UNCHANGED <<inputVars, error, advisory, professor_assignments,
                   edgeVars, graphVars, loopVars, outVars>>

\* the courses of all lists of a map
CoursesOf(assignments) ==
    UNION {Range(assignments[p]) : p \in DOMAIN assignments}

CollectCourses ==
    /\ pc = "collect"
    /\ all_courses' = CoursesOf(student_assignments)
                         \cup CoursesOf(professor_assignments)
    /\ pc' = "edges"
    /\ UNCHANGED <<inputVars, error, loadVars,
                   student_conflict_graph_edges, professor_conflict_graph_edges,
                   combined_conflict_graph_edges, graphVars, loopVars, outVars>>

(***************************************************************************)
(* 2. The conflict graph                                                   *)
(***************************************************************************)
\* frozenset({course1, course2}) for each of itertools.combinations(courses, 2):
\* one frozenset per pair of positions of the list
Combinations(courses) ==
    {{courses[p[1]], courses[p[2]]} :
        p \in {q \in (1..Len(courses)) \X (1..Len(courses)) : q[1] < q[2]}}

\* the edges all lists of a map give
EdgesOf(assignments) ==
    UNION {Combinations(assignments[p]) : p \in DOMAIN assignments}

ConflictEdges ==
    /\ pc = "edges"
    /\ student_conflict_graph_edges' = EdgesOf(student_assignments)
    /\ professor_conflict_graph_edges' = EdgesOf(professor_assignments)
    /\ combined_conflict_graph_edges' =
           EdgesOf(student_assignments) \cup EdgesOf(professor_assignments)
    /\ pc' = "build"
    /\ UNCHANGED <<inputVars, error, loadVars, all_courses,
                   graphVars, loopVars, outVars>>

\* course1, course2 = tuple(edge) needs two values
Unpacks(edge) == Cardinality(edge) = 2

\* G.add_nodes_from(all_courses) takes the courses in the order the set
\* yields them, which the language leaves open; G.add_edge for every edge,
\* in the order that set yields them, stopping at one that does not unpack
BuildGraph ==
    /\ pc = "build"
    /\ G_nodes' \in Perms(all_courses)
    /\ IF \A edge \in combined_conflict_graph_edges : Unpacks(edge)
       THEN /\ G_edges' = combined_conflict_graph_edges
            /\ pc' = "sort"
            /\ UNCHANGED error
       ELSE /\ G_edges' \in SUBSET {edge \in combined_conflict_graph_edges :
                                       Unpacks(edge)}
            /\ pc' = "aborted"
            /\ error' = "ValueError"
    /\ UNCHANGED <<inputVars, loadVars, edgeVars, sorted_nodes,
                   loopVars, outVars>>

(***************************************************************************)
(* 3. Colouring                                                            *)
(***************************************************************************)
\* G.neighbors(node)
Neighbors(n) == {m \in Range(G_nodes) : {n, m} \in G_edges /\ m # n}

\* G.degree[node]
Degree(n) == Cardinality({edge \in G_edges : n \in edge})

\* sorted() is stable, also with reverse=True: x goes behind every element
\* whose key is not smaller
RECURSIVE InsertByDegree(_, _)
InsertByDegree(x, s) ==
    IF s = <<>> THEN <<x>>
    ELSE IF Degree(s[1]) >= Degree(x)
         THEN <<s[1]>> \o InsertByDegree(x, Tail(s))
         ELSE <<x>> \o s

\* sorted(nodes, key=lambda node: G.degree[node], reverse=True)
RECURSIVE SortedByDegree(_)
SortedByDegree(nodes) ==
    IF nodes = <<>> THEN <<>>
    ELSE InsertByDegree(nodes[Len(nodes)],
                        SortedByDegree(SubSeq(nodes, 1, Len(nodes) - 1)))

\* a graph view that leaves out the courses without any conflict
NodesWithEdges == SelectSeq(G_nodes, LAMBDA n : Degree(n) > 0)

\* G.nodes()
GraphNodes == G_nodes

SortNodes ==
    /\ pc = "sort"
    /\ sorted_nodes' = SortedByDegree(GraphNodes)
    /\ pc' = "for"
    /\ UNCHANGED <<inputVars, error, loadVars, edgeVars, G_nodes, G_edges,
                   loopVars, outVars>>

\* the set as the previous node left it: nothing is collected for n
StaleNeighborColors(n) == used_neighbor_colors

\* the slots of every course coloured so far, neighbour or not
AllColorsSoFar(n) == {DictGet(coloring, m) : m \in DictKeys(coloring)}

\* the slots of the neighbours that are in coloring already
NeighborColors(n) ==
    {DictGet(coloring, m) : m \in Neighbors(n) \cap DictKeys(coloring)}

\* head of the for loop: the next node, its neighbours' slots, color = 1
ForNode ==
    /\ pc = "for"
    /\ idx < Len(sorted_nodes)
    /\ node' = sorted_nodes[idx + 1]
    /\ idx' = idx + 1
    /\ used_neighbor_colors' = NeighborColors(sorted_nodes[idx + 1])
    /\ color' = 1
    /\ pc' = "while"
    /\ UNCHANGED <<inputVars, error, loadVars, edgeVars, graphVars,
                   coloring, outVars>>

\* while color in used_neighbor_colors: color += 1
WhileStep ==
    /\ pc = "while"
    /\ color \in used_neighbor_colors
    /\ color' = color + 1
    /\ UNCHANGED <<inputVars, pc, error, loadVars, edgeVars, graphVars,
                   idx, node, used_neighbor_colors, coloring, outVars>>

\* coloring[node] = color + 1: the slot after the first free one
AssignNextColor ==
    /\ pc = "while"
    /\ color \notin used_neighbor_colors
    /\ coloring' = DictSet(coloring, node, color + 1)
    /\ pc' = "for"
    /\ UNCHANGED <<inputVars, error, loadVars, edgeVars, graphVars,
                   idx, node, used_neighbor_colors, color, outVars>>

\* coloring[node] = color
AssignColor ==
    /\ pc = "while"
    /\ color \notin used_neighbor_colors
    /\ coloring' = DictSet(coloring, node, color)
    /\ pc' = "for"
    /\ UNCHANGED <<inputVars, error, loadVars, edgeVars, graphVars,
                   idx, node, used_neighbor_colors, color, outVars>>

\* the grouping loop over coloring.items()
RECURSIVE GroupBySlot(_, _)
GroupBySlot(items, sched) ==
    IF items = <<>> THEN sched
    ELSE LET course == items[1][1]
             time_slot == items[1][2]
             opened == IF time_slot \notin DictKeys(sched)
                       THEN DictSet(sched, time_slot, <<>>)
                       ELSE sched
         IN  GroupBySlot(Tail(items),
                 DictSet(opened, time_slot,
                         Append(DictGet(opened, time_slot), course)))

\* the for loop is exhausted; the courses are grouped by slot
BuildSchedule ==
    /\ pc = "for"
    /\ idx >= Len(sorted_nodes)
    /\ schedule' = GroupBySlot(coloring, <<>>)
    /\ pc' = "rooms"
    /\ UNCHANGED <<inputVars, error, loadVars, edgeVars, graphVars, loopVars,
                   max_simultaneous_exams, room_assignments>>

(***************************************************************************)
(* 4. Rooms                                                                *)
(***************************************************************************)
Max(a, b) == IF a >= b THEN a ELSE b

\* the loop max_simultaneous_exams = max(max_simultaneous_exams, len(...))
RECURSIVE MaxSimultaneous(_, _)
MaxSimultaneous(items, m) ==
    IF items = <<>> THEN m
    ELSE MaxSimultaneous(Tail(items), Max(m, Len(items[1][2])))

\* f"Aula {i}": the labels counted from 0
ZeroBasedRoomLabel(i) == <<"Aula", i>>

\* f"Aula {i + 1}"
RoomLabel(i) == <<"Aula", i + 1>>

\* for i, course in enumerate(courses_in_slot), from position i on
RECURSIVE RoomsOfSlot(_, _, _)
RoomsOfSlot(courses_in_slot, i, rooms) ==
    IF i >= Len(courses_in_slot) THEN rooms
    ELSE RoomsOfSlot(courses_in_slot, i + 1,
                     DictSet(rooms, courses_in_slot[i + 1], RoomLabel(i)))

\* the loop over schedule.items() that fills room_assignments
RECURSIVE AssignRooms(_, _)
AssignRooms(items, assigned) ==
    IF items = <<>> THEN assigned
    ELSE AssignRooms(Tail(items),
                     DictSet(assigned, items[1][1],
                             RoomsOfSlot(items[1][2], 0, <<>>)))

AllocateRooms ==
    /\ pc = "rooms"
    /\ max_simultaneous_exams' = MaxSimultaneous(schedule, 0)
    /\ room_assignments' = AssignRooms(schedule, <<>>)
    /\ pc' = "done"
    /\ UNCHANGED <<inputVars, error, loadVars, edgeVars, graphVars, loopVars,
                   schedule>>

(***************************************************************************)
(* A second run of the same script on the same two files; what the first   *)
(* run gave is kept for comparison.                                        *)
(***************************************************************************)
\* the three results, compared as Python compares dicts and lists
Outputs ==
    [coloring |-> AsMap(coloring),
     schedule |-> AsMap(schedule),
     room_assignments |->
         [t \in DictKeys(room_assignments) |->
             AsMap(DictGet(room_assignments, t))]]

Rerun ==
    /\ pc = "done"
    /\ prev = NoRun
    /\ prev' = <<Outputs>>
    /\ pc' = "load"
    /\ error' = "none"
    /\ advisory' = FALSE
    /\ student_assignments' = <<>>
    /\ professor_assignments' = <<>>
    /\ all_courses' = {}
    /\ student_conflict_graph_edges' = {}
    /\ professor_conflict_graph_edges' = {}
    /\ combined_conflict_graph_edges' = {}
    /\ G_nodes' = <<>>
    /\ G_edges' = {}
    /\ sorted_nodes' = <<>>
    /\ idx' = 0
    /\ node' = ""
    /\ used_neighbor_colors' = {}
    /\ color' = 0
    /\ coloring' = <<>>
    /\ schedule' = <<>>
    /\ max_simultaneous_exams' = 0
    /\ room_assignments' = <<>>
    /\ UNCHANGED <<version, students_file, professors_file>>

Next ==
    \/ Load
    \/ Normalize
    \/ CollectCourses
    \/ ConflictEdges
    \/ BuildGraph
    \/ SortNodes
    \/ ForNode
    \/ WhileStep
    \/ AssignColor
    \/ BuildSchedule
    \/ AllocateRooms

Spec == Init /\ [][Next]_vars

NextRerun == Next \/ Rerun

RerunSpec == Init /\ [][NextRerun]_vars

(***************************************************************************)
(* Vocabulary of the properties                                            *)
(***************************************************************************)
Colored == DictKeys(coloring)

ColorOf(c) == DictGet(coloring, c)

\* the graph is complete: every statement up to G.add_edge has run
GraphBuilt == pc \in {"sort", "for", "while", "rooms", "done"}

\* the for loop has taken its last node and assigned its slot
LoopFinished ==
    \/ pc = "for" /\ idx >= Len(sorted_nodes)
    \/ pc \in {"rooms", "done"}

\* the courses of slot t
InSlot(t) == {c \in Colored : ColorOf(c) = t}

SlotsUsed == {ColorOf(c) : c \in Colored}

(***************************************************************************)
(* C1.  Proper colouring: no two adjacent courses that both have a slot    *)
(* share it, after every iteration of the colouring loop; and once the     *)
(* loop has finished both ends of every edge have a slot, so every edge    *)
(* joins two different slots.                                              *)
(***************************************************************************)
C1_ProperColoring ==
    /\ \A edge \in G_edges : \A a, b \in edge :
          (a # b /\ a \in Colored /\ b \in Colored) => ColorOf(a) # ColorOf(b)
    /\ LoopFinished => \A edge \in G_edges : edge \subseteq Colored

\* a triangle has been coloured, with three slots
C1_Witness ==
    /\ LoopFinished
    /\ \E a, b, c \in Colored :
          /\ {{a, b}, {b, c}, {a, c}} \subseteq G_edges
          /\ Cardinality({a, b, c}) = 3
          /\ Cardinality({ColorOf(a), ColorOf(b), ColorOf(c)}) = 3

(***************************************************************************)
(* C2.  Determinism: a second run of the pipeline on the same two files    *)
(* ends with the same Coloring, the same Schedule (the order of the        *)
(* courses within a slot included) and the same RoomAssignment as the      *)
(* first, whatever order the set all_courses yields its elements in.       *)
(***************************************************************************)
C2_Determinism ==
    (pc = "done" /\ prev # NoRun) => prev[1] = Outputs

(***************************************************************************)
(* C3.  Conflict completeness: the edges of the finished conflict graph    *)
(* are exactly the unordered pairs of distinct courses that occur          *)
(* together in the normalized course list of some student or of some       *)
(* instructor of the input files.                                          *)
(***************************************************************************)
\* the lists of the two files, each with the known typo corrected
NormalizedLists ==
    {CorrectedCourses(students_file[s]) : s \in DOMAIN students_file}
       \cup {CorrectedCourses(professors_file.data[q]) :
                q \in DOMAIN professors_file.data}

\* the pairs of distinct courses some person's normalized list holds both of
SharedPairs ==
    {pair \in SUBSET Courses :
        /\ Cardinality(pair) = 2
        /\ \E l \in NormalizedLists : pair \subseteq Range(l)}

C3_ConflictCompleteness ==
    GraphBuilt => G_edges = SharedPairs

(***************************************************************************)
(* C4.  Room allocation: when the allocator has run, max_simultaneous_exams*)
(* is the largest number of courses any slot holds, every slot's rooms     *)
(* give each course of the slot exactly one label, no label twice, and     *)
(* every label is one of "Aula 1" .. "Aula max_simultaneous_exams".        *)
(***************************************************************************)
RoomsOf(t) == DictGet(room_assignments, t)

C4_RoomAllocation ==
    pc = "done" =>
        /\ \A t \in SlotsUsed : Cardinality(InSlot(t)) <= max_simultaneous_exams
        /\ \/ SlotsUsed = {} /\ max_simultaneous_exams = 0
           \/ \E t \in SlotsUsed : Cardinality(InSlot(t)) = max_simultaneous_exams
        /\ DictKeys(room_assignments) = SlotsUsed
        /\ Len(room_assignments) = Cardinality(SlotsUsed)
        /\ \A t \in SlotsUsed :
              /\ DictKeys(RoomsOf(t)) = InSlot(t)
              /\ Len(RoomsOf(t)) = Cardinality(InSlot(t))
              /\ \A c, d \in InSlot(t) :
                    DictGet(RoomsOf(t), c) = DictGet(RoomsOf(t), d) => c = d
              /\ \A c \in InSlot(t) :
                    DictGet(RoomsOf(t), c) \in
                        {<<"Aula", k>> : k \in 1..max_simultaneous_exams}

\* two slots, one of them with two courses in two different rooms
C4_Witness ==
    /\ pc = "done"
    /\ max_simultaneous_exams = 2
    /\ Cardinality(SlotsUsed) >= 2
    /\ \E t \in SlotsUsed : Cardinality(InSlot(t)) = 2

(***************************************************************************)
(* C5.  Normalization before pairing: the truncated name, in a student's   *)
(* list or in an instructor's, is replaced by the canonical name before    *)
(* nodes and edges are derived, so the truncated name is never a node of   *)
(* the graph nor an end of an edge; every other name passes unchanged.     *)
(***************************************************************************)
C5_NormalizedBeforePairing ==
    /\ pc \notin {"load", "normalize", "collect", "aborted"} =>
          all_courses = UNION {Range(l) : l \in NormalizedLists}
    /\ Truncated \notin all_courses
    /\ Truncated \notin Range(G_nodes)
    /\ \A edge \in combined_conflict_graph_edges \cup G_edges :
          Truncated \notin edge

(***************************************************************************)
(* C6.  Missing instructor data is recoverable: when the professors' file  *)
(* is absent the run does not abort; it prints the advisory, takes the     *)
(* instructor map as empty and builds a graph whose edges are exactly      *)
(* the student-derived edges.                                              *)
(***************************************************************************)
C6_MissingInstructorsRecoverable ==
    ~professors_file.exists =>
        /\ pc # "aborted"
        /\ pc # "load" => advisory /\ professor_assignments = <<>>
        /\ GraphBuilt => G_edges = student_conflict_graph_edges

(***************************************************************************)
(* C7.  The colouring never fails: the loop over a built graph ends, it    *)
(* takes every node exactly once, no exception leaves it, and when it has  *)
(* ended coloring maps exactly the nodes of the graph, each to a slot      *)
(* >= 1 and no other key.                                                  *)
(***************************************************************************)
InLoop == pc \in {"for", "while"}

\* the nodes the loop has assigned so far are the first ones of
\* sorted_nodes, each once, in that order
TakenInOrder ==
    LET done == IF pc = "while" THEN idx - 1 ELSE idx
    IN  /\ idx <= Len(sorted_nodes)
        /\ Len(coloring) = done
        /\ \A i \in 1..done : coloring[i][1] = sorted_nodes[i]

EachNodeOnce ==
    /\ Range(sorted_nodes) = all_courses
    /\ Len(sorted_nodes) = Cardinality(all_courses)

TotalColoring ==
    /\ Colored = Range(G_nodes)
    /\ Colored = all_courses
    /\ Len(coloring) = Cardinality(all_courses)
    /\ \A c \in Colored : ColorOf(c) \in Nat \ {0}

\* what is left of the loop: the nodes not taken yet weigh more than any
\* search for a slot, and a search has at most one step per used slot left
LoopMeasure ==
    (Len(sorted_nodes) - idx) * (Cardinality(all_courses) + 2)
       + (IF pc = "while"
          THEN 1 + Cardinality({c \in used_neighbor_colors : c >= color})
          ELSE 0)

\* a step of the loop: the head, the search, the assignment
LoopStep == ForNode \/ WhileStep \/ AssignColor

\* The loop ends: until it has finished it is never stuck, and every step
\* that stays in it lowers LoopMeasure, a natural number.  Every state but
\* the initial ones, which are outside the loop and hold no coloring, is
\* the end of a step.
C7_ColoringNeverFails ==
    [][/\ (InLoop => TakenInOrder /\ EachNodeOnce)'
       /\ (LoopFinished => TotalColoring)'
       /\ (pc = "aborted" => coloring = <<>>)'
       /\ (InLoop /\ ~LoopFinished => ENABLED LoopStep)'
       /\ InLoop => /\ pc' # "aborted"
                    /\ InLoop' => LoopMeasure' < LoopMeasure]_vars

\* the loop has ended on a graph of four courses, one of them without
\* any conflict
C7_Witness ==
    /\ LoopFinished
    /\ Len(coloring) = 4
    /\ \E c \in Colored : Degree(c) = 0
    /\ \E c \in Colored : ColorOf(c) = 2

(***************************************************************************)
(* C8.  The conflict relation is simple, also when a list names a course   *)
(* twice: every element of the student, instructor and combined edge sets  *)
(* is a pair of two distinct courses, and the graph has no self-loop.      *)
(***************************************************************************)
C8_SimpleConflictRelation ==
    /\ \A edge \in student_conflict_graph_edges
                      \cup professor_conflict_graph_edges
                      \cup combined_conflict_graph_edges :
          Cardinality(edge) = 2
    /\ \A edge \in G_edges : Cardinality(edge) = 2
    /\ \A n \in Range(G_nodes) : n \notin Neighbors(n)

(***************************************************************************)
(* C9.  Processing order: a course coloured before another has a larger    *)
(* degree, or the same degree and the smaller name.                        *)
(***************************************************************************)
C9_ProcessingOrder ==
    \A i, j \in 1..Len(coloring) :
        i < j =>
            LET u == coloring[i][1]
                v == coloring[j][1]
            IN  \/ Degree(u) > Degree(v)
                \/ Degree(u) = Degree(v) /\ LexRank(u) < LexRank(v)

(***************************************************************************)
(* C10.  Slot bound: every coloured course v has 1 <= slot <= 1 +          *)
(* degree(v); the search for the smallest unused slot increments at most   *)
(* degree(node) times; a course without conflicts gets slot 1, and in a    *)
(* graph without edges every course gets slot 1.                           *)
(***************************************************************************)
C10_SlotBound ==
    /\ \A v \in Colored :
          /\ 1 <= ColorOf(v)
          /\ ColorOf(v) <= 1 + Degree(v)
          /\ Degree(v) = 0 => ColorOf(v) = 1
    /\ pc = "while" => (1 <= color /\ color - 1 <= Degree(node))
    /\ G_edges = {} => \A v \in Colored : ColorOf(v) = 1

\* a course with two conflicts sits in slot 3 and one without any in slot 1
C10_Witness ==
    /\ LoopFinished
    /\ \E v \in Colored : Degree(v) = 2 /\ ColorOf(v) = 3
    /\ \E v \in Colored : Degree(v) = 0 /\ ColorOf(v) = 1

(***************************************************************************)
(* C11.  Greedy minimality, no gaps: every course in a slot c > 1 has,     *)
(* for each slot s with 1 <= s < c, a neighbour that was coloured before   *)
(* it and holds slot s; so the slots used are exactly 1..k with no number  *)
(* left out, and the keys of schedule are exactly 1..k and its lists       *)
(* partition the nodes of the graph.                                       *)
(***************************************************************************)
\* the i-th course coloured has an earlier coloured neighbour in slot s
EarlierNeighborIn(i, s) ==
    \E j \in 1..(i - 1) :
        /\ coloring[j][1] \in Neighbors(coloring[i][1])
        /\ coloring[j][2] = s

CoursesOfSlot(t) == DictGet(schedule, t)

C11_GreedyNoGaps ==
    /\ \A i \in 1..Len(coloring) :
          \A s \in 1..(coloring[i][2] - 1) : EarlierNeighborIn(i, s)
    /\ SlotsUsed = 1..Cardinality(SlotsUsed)
    /\ pc \in {"rooms", "done"} =>
          /\ DictKeys(schedule) = 1..Cardinality(SlotsUsed)
          /\ Len(schedule) = Cardinality(SlotsUsed)
          /\ \A t \in DictKeys(schedule) :
                /\ Range(CoursesOfSlot(t)) = InSlot(t)
                /\ Len(CoursesOfSlot(t)) = Cardinality(InSlot(t))
                /\ CoursesOfSlot(t) # <<>>
          /\ UNION {Range(CoursesOfSlot(t)) : t \in DictKeys(schedule)}
                = Range(G_nodes)
          /\ \A t, u \in DictKeys(schedule) :
                t # u => Range(CoursesOfSlot(t)) \cap Range(CoursesOfSlot(u)) = {}

\* the schedule of a triangle and a fourth course: slots 1, 2 and 3, the
\* first with two courses
C11_Witness ==
    /\ pc = "done"
    /\ DictKeys(schedule) = {1, 2, 3}
    /\ Len(CoursesOfSlot(1)) = 2
    /\ \E i \in 1..Len(coloring) : coloring[i][2] = 3

=============================================================================
